---- MODULE Spec2Model ----
(***************************************************************************)
(* Model of b3_MCP_Tool_Simple/agent.py: the response scanner              *)
(* (save_image_from_response), the text scan and prints of main, and the   *)
(* top-level exception handlers of the script.                             *)
(*                                                                         *)
(* Python values are represented as follows.                               *)
(*   None / missing attribute or key : NoneV                               *)
(*   any other value v               : Some(v)                             *)
(*   str (text)                      : sequence of one-character strings   *)
(*   str (base64 data)               : sequence of character codes, where  *)
(*        0..63 is the base64 alphabet value of the character, PadCh is    *)
(*        "=" and JunkCh is a character outside the alphabet               *)
(*   bytes                           : sequence of 0..255                  *)
(***************************************************************************)
EXTENDS Integers, Sequences, FiniteSets, TLC

VARIABLES
    pc,                   \* position of the script
    response_events,      \* main: the list returned by runner.run_debug
    old_file,             \* the destination file before the script ran
    file,                 \* the destination file tiny_image.png
    image_data_b64,       \* save_image_from_response: the selected data
    examined,             \* positions of the items the image scan looked at
    image_status,         \* main: the returned status, "none" before
    final_response_text,  \* main: the concatenated text
    stdout,               \* the printed lines
    exc,                  \* the exception raised, if any, and where
    writes                \* number of calls of Path.write_bytes

vars == <<pc, response_events, old_file, file, image_data_b64, examined,
          image_status, final_response_text, stdout, exc, writes>>

\* ---------------------------------------------------------------- bounds
MaxEvents == 2
MaxParts == 2
MaxTotalParts == 2

\* ------------------------------------------------------- Python optionals
NoneV == [tag |-> "None"]
Some(v) == [tag |-> "Some", val |-> v]

\* Python truthiness of an optional str / list: None and empty are falsy.
Truthy(o) == o.tag = "Some" /\ Len(o.val) > 0

\* ----------------------------------------------------------------- base64
PadCh == 64
JunkCh == 65

\* base64.b64encode on a byte sequence (the encoding the tool applies).
RECURSIVE B64Encode(_)
B64Encode(bs) ==
    IF Len(bs) = 0 THEN <<>>
    ELSE IF Len(bs) = 1 THEN
        << bs[1] \div 4, (bs[1] % 4) * 16, PadCh, PadCh >>
    ELSE IF Len(bs) = 2 THEN
        << bs[1] \div 4, (bs[1] % 4) * 16 + (bs[2] \div 16),
           (bs[2] % 16) * 4, PadCh >>
    ELSE
        << bs[1] \div 4, (bs[1] % 4) * 16 + (bs[2] \div 16),
           (bs[2] % 16) * 4 + (bs[3] \div 64), bs[3] % 64 >>
        \o B64Encode(SubSeq(bs, 4, Len(bs)))

\* base64.b64decode(s) with validate=False (binascii.a2b_base64, non-strict):
\* characters outside the alphabet are discarded, a completed pad sequence
\* stops the parse, and leftover data characters are an error.
\* st = [quad_pos, leftchar, pads, out]
RECURSIVE A2bLoop(_, _, _)
A2bLoop(s, i, st) ==
    IF i > Len(s) THEN
        [ok |-> st.quad_pos = 0, bytes |-> st.out]
    ELSE IF s[i] = PadCh THEN
        IF st.quad_pos >= 2 /\ st.quad_pos + st.pads + 1 >= 4
        THEN [ok |-> TRUE, bytes |-> st.out]
        ELSE A2bLoop(s, i + 1,
                 [st EXCEPT !.pads = IF st.quad_pos >= 2 THEN st.pads + 1
                                     ELSE st.pads])
    ELSE IF s[i] >= 64 THEN A2bLoop(s, i + 1, st)
    ELSE IF st.quad_pos = 0 THEN
        A2bLoop(s, i + 1, [st EXCEPT !.pads = 0, !.quad_pos = 1,
                                     !.leftchar = s[i]])
    ELSE IF st.quad_pos = 1 THEN
        A2bLoop(s, i + 1, [st EXCEPT !.pads = 0, !.quad_pos = 2,
            !.out = Append(st.out, (st.leftchar * 4 + s[i] \div 16) % 256),
            !.leftchar = s[i] % 16])
    ELSE IF st.quad_pos = 2 THEN
        A2bLoop(s, i + 1, [st EXCEPT !.pads = 0, !.quad_pos = 3,
            !.out = Append(st.out, (st.leftchar * 16 + s[i] \div 4) % 256),
            !.leftchar = s[i] % 4])
    ELSE
        A2bLoop(s, i + 1, [st EXCEPT !.pads = 0, !.quad_pos = 0,
            !.out = Append(st.out, (st.leftchar * 64 + s[i]) % 256),
            !.leftchar = 0])

\* A slip of the decoder: leftover data characters are not an error.
B64DecodeLenient(s) ==
    [ok |-> TRUE,
     bytes |-> A2bLoop(s, 1, [quad_pos |-> 0, leftchar |-> 0, pads |-> 0,
                              out |-> <<>>]).bytes]

B64Decode(s) ==
    A2bLoop(s, 1, [quad_pos |-> 0, leftchar |-> 0, pads |-> 0, out |-> <<>>])


\* ------------------------------------------------------------- input data
\* Byte strings the tool may return as images and their base64 text.
BytesABC == <<65, 66, 67>>
BytesPNG == <<137>>
BytesFFP == <<255, 80>>
ByteStrings == {BytesABC, BytesPNG, BytesFFP}

\* "not-valid-base64!!" : 14 alphabet characters and 4 outside the alphabet.
BadData == <<39, 40, 45, JunkCh, 47, 26, 37, 34, 29, JunkCh,
             27, 26, 44, 30, 58, 56, JunkCh, JunkCh>>
\* "QUJD!!" : the encoding of "ABC" followed by two junk characters.
JunkData == <<16, 20, 9, 3, JunkCh, JunkCh>>

Item(t, d) == [type |-> t, data |-> d]
ImageItem(d) == Item("image", Some(d))

TextPart(t) == [text |-> t, function_response |-> NoneV]
ToolResponsePart(content) ==
    [text |-> NoneV, function_response |-> Some([response |-> [content |-> content]])]

TextHi == <<"H", "i", " ">>
TextYo == <<"y", "o", ".">>

PartSet ==
    { TextPart(Some(TextHi)),
      TextPart(Some(TextYo)),
      ToolResponsePart(NoneV),
      ToolResponsePart(Some(<< Item("text", Some(B64Encode(BytesABC))),
                               ImageItem(<<>>) >>)),
      ToolResponsePart(Some(<< ImageItem(B64Encode(BytesABC)),
                               ImageItem(B64Encode(BytesPNG)) >>)),
      ToolResponsePart(Some(<< Item("text", NoneV),
                               ImageItem(B64Encode(BytesFFP)) >>)),
      ToolResponsePart(Some(<< ImageItem(BadData) >>)),
      ToolResponsePart(Some(<< ImageItem(JunkData) >>)) }

Event(content) == [content |-> content]

\* The events with exactly k parts; without parts the content is None or
\* its parts are None.
EventsWith(k) ==
    IF k = 0
    THEN { Event(NoneV), Event(Some([parts |-> NoneV])) }
    ELSE { Event(Some([parts |-> Some(ps)])) : ps \in [1..k -> PartSet] }

Min(a, b) == IF a < b THEN a ELSE b

\* The event lists of at most n events, of at most MaxParts parts each and
\* of at most budget parts in all.
RECURSIVE EventLists(_, _)
EventLists(n, budget) ==
    IF n = 0 THEN { <<>> }
    ELSE { <<>> } \cup
         UNION { { <<ev>> \o rest : ev \in EventsWith(k),
                                    rest \in EventLists(n - 1, budget - k) } :
                 k \in 0..Min(MaxParts, budget) }

\* The event lists the external run may return.
EventSeqs == EventLists(MaxEvents, MaxTotalParts)

\* Contents the destination file may hold before the script runs.
NoFile == [exists |-> FALSE, bytes |-> <<>>]
FileOf(bs) == [exists |-> TRUE, bytes |-> bs]
OldFiles == {NoFile, FileOf(<<1, 2, 3, 4>>)}

\* ------------------------------------------- save_image_from_response scan
\* A slip of the item test: the type of the item is not looked at.
RECURSIVE ItemLoopAnyType(_, _, _, _, _)
ItemLoopAnyType(items, e, p, i, st) ==
    IF i > Len(items) THEN st
    ELSE LET seen == Append(st.examined, <<e, p, i>>) IN
         IF Truthy(items[i].data)
         THEN [data |-> items[i].data, examined |-> seen]
         ELSE ItemLoopAnyType(items, e, p, i + 1, [st EXCEPT !.examined = seen])

\* st = [data, examined]: image_data_b64 and the <<event, part, item>>
\* positions whose item was examined so far.
\* Lines 91-94: the item loop of one tool-response part.
RECURSIVE ItemLoop(_, _, _, _, _)
ItemLoop(items, e, p, i, st) ==
    IF i > Len(items) THEN st
    ELSE LET seen == Append(st.examined, <<e, p, i>>) IN
         IF items[i].type = "image" /\ Truthy(items[i].data)
         THEN [data |-> items[i].data, examined |-> seen]
         ELSE ItemLoop(items, e, p, i + 1, [st EXCEPT !.examined = seen])

\* Line 90: part.function_response.response.get("content", [])
ResponseContent(fr) ==
    IF fr.response.content.tag = "Some" THEN fr.response.content.val ELSE <<>>

\* Lines 87-94: the part loop of one event; it has no break of its own.
RECURSIVE PartLoop(_, _, _, _)
PartLoop(parts, e, p, st) ==
    IF p > Len(parts) THEN st
    ELSE LET part == parts[p] IN
         PartLoop(parts, e, p + 1,
             IF part.function_response.tag = "Some"
             THEN ItemLoop(ResponseContent(part.function_response.val), e, p, 1, st)
             ELSE st)

\* event.content and event.content.parts
HasParts(event) ==
    event.content.tag = "Some" /\ Truthy(event.content.val.parts)

\* Lines 85-96: the event loop, left at line 96 once image_data_b64 is set.
RECURSIVE EventLoop(_, _, _)
EventLoop(events, e, st) ==
    IF e > Len(events) THEN st
    ELSE IF HasParts(events[e]) THEN
        LET st1 == PartLoop(events[e].content.val.parts.val, e, 1, st) IN
        IF Truthy(st1.data) THEN st1 ELSE EventLoop(events, e + 1, st1)
    ELSE EventLoop(events, e + 1, st)

\* Lines 82-96.
ScanImage(events) == EventLoop(events, 1, [data |-> NoneV, examined |-> <<>>])

\* ------------------------------------------------------ main: the text scan
\* A slip of the concatenation: fragments are joined with a blank.
RECURSIVE TextPartLoopSep(_, _, _)
TextPartLoopSep(parts, p, acc) ==
    IF p > Len(parts) THEN acc
    ELSE TextPartLoopSep(parts, p + 1,
             IF Truthy(parts[p].text) THEN acc \o <<" ">> \o parts[p].text.val
             ELSE acc)

\* Lines 131-133.
RECURSIVE TextPartLoop(_, _, _)
TextPartLoop(parts, p, acc) ==
    IF p > Len(parts) THEN acc
    ELSE TextPartLoop(parts, p + 1,
             IF Truthy(parts[p].text) THEN acc \o parts[p].text.val ELSE acc)

\* Lines 128-133.
RECURSIVE TextEventLoop(_, _, _)
TextEventLoop(events, e, acc) ==
    IF e > Len(events) THEN acc
    ELSE TextEventLoop(events, e + 1,
             IF HasParts(events[e])
             THEN TextPartLoop(events[e].content.val.parts.val, 1, acc)
             ELSE acc)

ExtractText(events) == TextEventLoop(events, 1, <<>>)

\* str.strip() for the blank character.
RECURSIVE Strip(_)
Strip(t) ==
    IF Len(t) = 0 THEN t
    ELSE IF t[1] = " " THEN Strip(Tail(t))
    ELSE IF t[Len(t)] = " " THEN Strip(SubSeq(t, 1, Len(t) - 1))
    ELSE t


\* ------------------------------------------------------------ the script
Line(l) == [line |-> l]
NoExc == [kind |-> "none", origin |-> "none"]
Raised(kind, origin) == [kind |-> kind, origin |-> origin]

\* Lines 63 and 74 have printed when the module is loaded.
Init ==
    /\ pc = "start"
    /\ response_events = <<>>
    /\ old_file \in OldFiles
    /\ file = old_file
    /\ image_data_b64 = NoneV
    /\ examined = <<>>
    /\ image_status = "none"
    /\ final_response_text = <<>>
    /\ stdout = << Line("ToolCreated"), Line("AgentCreated") >>
    /\ exc = NoExc
    /\ writes = 0

\* Lines 117-122: main prints the query and awaits runner.run_debug, which
\* returns the complete event list.
RunDebugReturn ==
    /\ pc = "start"
    /\ \E evs \in EventSeqs : response_events' = evs
    /\ stdout' = stdout \o << Line("User"), Line("Rule") >>
    /\ pc' = "received"
    /\ UNCHANGED <<old_file, file, image_data_b64, examined, image_status,
                   final_response_text, exc, writes>>

\* Line 122: the external run raises, an exception group or another Exception.
RunDebugRaise ==
    /\ pc = "start"
    /\ \E k \in {"group", "error"} : exc' = Raised(k, "run")
    /\ stdout' = stdout \o << Line("User"), Line("Rule") >>
    /\ pc' = "raised"
    /\ UNCHANGED <<response_events, old_file, file, image_data_b64, examined,
                   image_status, final_response_text, writes>>

\* A slip of the write: the file is opened for appending.
WriteBytesAppend(old, bs) == FileOf(old.bytes \o bs)

\* Line 104: Path.write_bytes replaces the content of the file.
WriteBytes(old, bs) == FileOf(bs)

\* Lines 82-96, 98, 107-108: no data selected, the not-found status.
SaveImageNotFound ==
    /\ pc = "received"
    /\ LET st == ScanImage(response_events) IN
        /\ ~Truthy(st.data)
        /\ image_data_b64' = st.data
        /\ examined' = st.examined
    /\ image_status' = "notfound"
    /\ pc' = "saved"
    /\ UNCHANGED <<response_events, old_file, file, final_response_text,
                   stdout, exc, writes>>

\* A slip of the error policy: the decode error is swallowed and reported as
\* the not-found status.
SaveImageDecodeErrorSwallowed ==
    /\ pc = "received"
    /\ LET st == ScanImage(response_events) IN
        /\ Truthy(st.data)
        /\ ~B64Decode(st.data.val).ok
        /\ image_data_b64' = st.data
        /\ examined' = st.examined
    /\ image_status' = "notfound"
    /\ pc' = "saved"
    /\ UNCHANGED <<response_events, old_file, file, final_response_text,
                   stdout, exc, writes>>

\* Lines 82-100: b64decode raises binascii.Error, which leaves main.
SaveImageDecodeError ==
    /\ pc = "received"
    /\ LET st == ScanImage(response_events) IN
        /\ Truthy(st.data)
        /\ ~B64Decode(st.data.val).ok
        /\ image_data_b64' = st.data
        /\ examined' = st.examined
    /\ exc' = Raised("error", "decode")
    /\ pc' = "raised"
    /\ UNCHANGED <<response_events, old_file, file, image_status,
                   final_response_text, stdout, writes>>

\* A slip of the write: the bytes are written in the loop and again after it.
SaveImageWriteOKTwice ==
    /\ pc = "received"
    /\ LET st == ScanImage(response_events) IN
        /\ Truthy(st.data)
        /\ B64Decode(st.data.val).ok
        /\ image_data_b64' = st.data
        /\ examined' = st.examined
        /\ file' = WriteBytes(file, B64Decode(st.data.val).bytes)
    /\ writes' = writes + 2
    /\ image_status' = "success"
    /\ pc' = "saved"
    /\ UNCHANGED <<response_events, old_file, final_response_text, stdout, exc>>

\* Lines 82-106: the data decodes and the bytes are written.
SaveImageWriteOK ==
    /\ pc = "received"
    /\ LET st == ScanImage(response_events) IN
        /\ Truthy(st.data)
        /\ B64Decode(st.data.val).ok
        /\ image_data_b64' = st.data
        /\ examined' = st.examined
        /\ file' = WriteBytes(file, B64Decode(st.data.val).bytes)
    /\ writes' = writes + 1
    /\ image_status' = "success"
    /\ pc' = "saved"
    /\ UNCHANGED <<response_events, old_file, final_response_text, stdout, exc>>

\* Lines 82-104: write_bytes raises OSError, either when opening the file
\* (content kept) or after truncating it (a proper prefix was written).
SaveImageWriteFail ==
    /\ pc = "received"
    /\ LET st == ScanImage(response_events) IN
        /\ Truthy(st.data)
        /\ B64Decode(st.data.val).ok
        /\ image_data_b64' = st.data
        /\ examined' = st.examined
        /\ LET bs == B64Decode(st.data.val).bytes IN
           \/ file' = file
           \/ \E n \in 0..(Len(bs) - 1) : file' = FileOf(SubSeq(bs, 1, n))
    /\ writes' = writes + 1
    /\ exc' = Raised("error", "write")
    /\ pc' = "raised"
    /\ UNCHANGED <<response_events, old_file, image_status,
                   final_response_text, stdout>>

\* Lines 127-138: the text scan and the three final prints of main.
TextScanAndPrint ==
    /\ pc = "saved"
    /\ final_response_text' = ExtractText(response_events)
    /\ stdout' = stdout \o
          << Line("Rule"),
             [line |-> "FinalText", text |-> Strip(final_response_text')],
             [line |-> "Status", status |-> image_status],
             Line("Rule") >>
    /\ pc' = "printed"
    /\ UNCHANGED <<response_events, old_file, file, image_data_b64, examined,
                   image_status, exc, writes>>

\* Line 144: asyncio.run returns after main has returned.
RunReturns ==
    /\ pc = "printed"
    /\ pc' = "done"
    /\ UNCHANGED <<response_events, old_file, file, image_data_b64, examined,
                   image_status, final_response_text, stdout, exc, writes>>

\* Line 144: closing the stdio transport raises the exception group of the
\* cleanup while asyncio.run unwinds.
TeardownRaise ==
    /\ pc = "printed"
    /\ exc' = Raised("group", "teardown")
    /\ pc' = "raised"
    /\ UNCHANGED <<response_events, old_file, file, image_data_b64, examined,
                   image_status, final_response_text, stdout, writes>>

\* Lines 145-149: except BaseExceptionGroup.
HandleGroup ==
    /\ pc = "raised"
    /\ exc.kind = "group"
    /\ stdout' = stdout \o << Line("Success"), Line("CleanupWarning") >>
    /\ pc' = "done"
    /\ UNCHANGED <<response_events, old_file, file, image_data_b64, examined,
                   image_status, final_response_text, exc, writes>>

\* A slip of the handler: the exception is reported and raised again.
HandleExceptionReraise ==
    /\ pc = "raised"
    /\ exc.kind = "error"
    /\ stdout' = stdout \o << Line("Fatal") >>
    /\ pc' = "crashed"
    /\ UNCHANGED <<response_events, old_file, file, image_data_b64, examined,
                   image_status, final_response_text, exc, writes>>

\* Lines 150-152: except Exception.
HandleException ==
    /\ pc = "raised"
    /\ exc.kind = "error"
    /\ stdout' = stdout \o << Line("Fatal") >>
    /\ pc' = "done"
    /\ UNCHANGED <<response_events, old_file, file, image_data_b64, examined,
                   image_status, final_response_text, exc, writes>>

Next ==
    \/ RunDebugReturn
    \/ RunDebugRaise
    \/ SaveImageNotFound
    \/ SaveImageDecodeError
    \/ SaveImageWriteOK
    \/ SaveImageWriteFail
    \/ TextScanAndPrint
    \/ RunReturns
    \/ TeardownRaise
    \/ HandleGroup
    \/ HandleException

Spec == Init /\ [][Next]_vars

TypeOK ==
    /\ pc \in {"start", "received", "saved", "printed", "raised", "done"}
    /\ image_status \in {"none", "notfound", "success"}
    /\ writes \in 0..2



\* ------------------------------------------------ what the claims speak of
\* The parts of an event and the items of a part, empty when absent.
PartsOf(event) ==
    IF event.content.tag = "Some" /\ event.content.val.parts.tag = "Some"
    THEN event.content.val.parts.val ELSE <<>>

ItemsOf(part) ==
    IF part.function_response.tag = "Some"
       /\ part.function_response.val.response.content.tag = "Some"
    THEN part.function_response.val.response.content.val ELSE <<>>

IsImageItem(item) ==
    item.type = "image" /\ item.data.tag = "Some" /\ item.data.val # <<>>

\* The <<event, part, item>> positions of the image items with data.
ImagePositions(events) ==
    UNION { UNION { { <<e, p, i>> :
                        i \in { j \in 1..Len(ItemsOf(PartsOf(events[e])[p])) :
                                  IsImageItem(ItemsOf(PartsOf(events[e])[p])[j]) } } :
                    p \in 1..Len(PartsOf(events[e])) } :
            e \in 1..Len(events) }

ItemAt(events, pos) == ItemsOf(PartsOf(events[pos[1]])[pos[2]])[pos[3]]

\* Event order, then part order, then item order.
LexLess(a, b) ==
    \/ a[1] < b[1]
    \/ a[1] = b[1] /\ a[2] < b[2]
    \/ a[1] = b[1] /\ a[2] = b[2] /\ a[3] < b[3]

FirstImagePos(events) ==
    CHOOSE a \in ImagePositions(events) :
        \A b \in ImagePositions(events) : a = b \/ LexLess(a, b)

\* save_image_from_response has been called and has returned or raised.
SaveRan == pc \notin {"start", "received"} /\ exc.origin # "run"

Printed(l) == \E i \in 1..Len(stdout) : stdout[i].line = l

\* Well-formed base64 text: whole quads of alphabet characters, with at most
\* two pad characters and only at the end.
ValidBase64(s) ==
    /\ Len(s) % 4 = 0
    /\ \A i \in 1..Len(s) :
        /\ s[i] # JunkCh
        /\ s[i] = PadCh => /\ i >= Len(s) - 1
                           /\ s[Len(s)] = PadCh

\* Text without a pad character whose alphabet characters do not fill quads.
IsAlphabetCh(c) == c < 64
DanglingData(s) ==
    /\ \A i \in 1..Len(s) : s[i] # PadCh
    /\ Len(SelectSeq(s, IsAlphabetCh)) % 4 # 0

\* The bytes denoted by base64 text whose pad characters, if any, follow all
\* its alphabet characters: each quad is one 24-bit number.
RECURSIVE QuadBytes(_)
QuadBytes(d) ==
    IF Len(d) < 2 THEN <<>>
    ELSE LET k == IF Len(d) < 4 THEN Len(d) ELSE 4
             v == d[1] * 262144 + d[2] * 4096
                  + (IF k >= 3 THEN d[3] * 64 ELSE 0)
                  + (IF k >= 4 THEN d[4] ELSE 0)
             three == << v \div 65536, (v \div 256) % 256, v % 256 >>
         IN SubSeq(three, 1, k - 1) \o QuadBytes(SubSeq(d, k + 1, Len(d)))

DecodedBytes(s) == QuadBytes(SelectSeq(s, IsAlphabetCh))

\* All parts of all events, in order, and their non-empty texts joined.
RECURSIVE AllParts(_)
AllParts(events) ==
    IF Len(events) = 0 THEN <<>>
    ELSE PartsOf(events[1]) \o AllParts(Tail(events))

HasText(part) == part.text.tag = "Some" /\ part.text.val # <<>>

RECURSIVE JoinTexts(_)
JoinTexts(parts) ==
    IF Len(parts) = 0 THEN <<>>
    ELSE parts[1].text.val \o JoinTexts(Tail(parts))

TextOf(events) == JoinTexts(SelectSeq(AllParts(events), HasText))

\* ------------------------------------------------------------------ claims
\* C1: the image save_image_from_response selects is the first item with
\* type "image" and non-empty data in event, part, item order, also when one
\* event carries several tool-response parts with an image each.
C1_FirstImageSelected ==
    SaveRan =>
        IF ImagePositions(response_events) = {}
        THEN image_data_b64 = NoneV
        ELSE image_data_b64 =
                ItemAt(response_events, FirstImagePos(response_events)).data

\* C2: when no item has type "image" with non-empty data, the call returns
\* the not-found status, raises nothing and writes no file.
C2_NotFound ==
    (SaveRan /\ ImagePositions(response_events) = {}) =>
        /\ image_status = "notfound"
        /\ exc.origin \notin {"decode", "write"}
        /\ writes = 0
        /\ file = old_file

C2_Witness ==
    /\ pc = "saved"
    /\ image_status = "notfound"
    /\ Len(response_events) = 2
    /\ response_events[1].content = NoneV
    /\ \E p \in 1..Len(PartsOf(response_events[2])) :
         \E i \in 1..Len(ItemsOf(PartsOf(response_events[2])[p])) :
            LET item == ItemsOf(PartsOf(response_events[2])[p])[i] IN
            item.type = "image" /\ item.data = Some(<<>>)

\* C3: after the success status the file holds exactly the decoded bytes of
\* the selected data, x for the data B64Encode(x), whatever it held before.
C3_RoundTrip ==
    image_status = "success" =>
        /\ file = FileOf(DecodedBytes(image_data_b64.val))
        /\ \A x \in ByteStrings :
             image_data_b64.val = B64Encode(x) => file = FileOf(x)

C3_Witness ==
    /\ image_status = "success"
    /\ old_file.exists
    /\ image_data_b64.val = B64Encode(BytesFFP)
    /\ file = FileOf(BytesFFP)

\* C4: the final text printed by main is the concatenation, without
\* separator, of the non-empty text fields in event then part order, whether
\* or not an image was found.
C4_FinalText ==
    \A i \in 1..Len(stdout) :
        stdout[i].line = "FinalText" =>
            /\ final_response_text = TextOf(response_events)
            /\ stdout[i].text = Strip(TextOf(response_events))

C4_Witness ==
    /\ pc = "printed"
    /\ Len(response_events) = 2
    /\ Len(PartsOf(response_events[1])) = 1
    /\ Len(PartsOf(response_events[2])) = 1
    /\ final_response_text = TextHi \o TextYo

C6_Caught ==
    /\ [](pc = "raised" => ENABLED (HandleGroup \/ HandleException))
    /\ [][pc = "raised" =>
            /\ pc' = "done"
            /\ stdout' = stdout \o
                 (IF exc.kind = "group"
                  THEN << Line("Success"), Line("CleanupWarning") >>
                  ELSE << Line("Fatal") >>)]_vars

C6_Witness ==
    /\ pc = "done"
    /\ exc = Raised("error", "write")
    /\ stdout[Len(stdout)] = Line("Fatal")

\* C7 as stated: every run writes the destination file exactly once.
C7_WrittenExactlyOnce == pc = "done" => writes = 1

\* C7 as amended: the file is written at most once, by the call that follows
\* the receipt of the events, and exactly once when the status is success.
C7_WrittenAtMostOnce ==
    /\ [](image_status = "success" => writes = 1)
    /\ [][(file' # file \/ writes' # writes) =>
            (pc = "received" /\ writes = 0 /\ writes' = 1)]_vars

C7_Witness ==
    /\ pc = "done"
    /\ writes = 1
    /\ image_status = "success"
    /\ file # old_file

\* C8: once the first image item with data is found no later item, part or
\* event is examined.
C8_NothingExaminedAfterFirst ==
    (SaveRan /\ ImagePositions(response_events) # {}) =>
        \A k \in 1..Len(examined) :
            \/ examined[k] = FirstImagePos(response_events)
            \/ LexLess(examined[k], FirstImagePos(response_events))

\* C9: a decode or write failure leaves main before the text scan: neither
\* the final text line nor the status line is printed, and the handler alone
\* reports it.
C9_FailurePropagates ==
    (SaveRan /\ \/ Truthy(image_data_b64) /\ DanglingData(image_data_b64.val)
                \/ exc.origin = "write") =>
        /\ exc.kind = "error"
        /\ exc.origin \in {"decode", "write"}
        /\ final_response_text = <<>>
        /\ ~Printed("FinalText")
        /\ ~Printed("Status")
        /\ ~Printed("Success")
        /\ pc = "done" => stdout[Len(stdout)] = Line("Fatal")

C9_Witness ==
    /\ pc = "done"
    /\ exc.origin = "decode"
    /\ Len(response_events) = 2
    /\ TextOf(response_events) # <<>>

\* C10: the success line is printed only after the image file was written.
C10_SuccessLineMeansSaved ==
    Printed("Success") => (image_status = "success" /\ writes = 1)

====
